---- MODULE Spec2Model ----
(***************************************************************************)
(* Model of app.py: the data-cleaning function clean_data and the          *)
(* interactive Extract / Clean / Load pipeline that drives it.             *)
(*                                                                         *)
(* A DataFrame is a record [columns, rows]: columns is the sequence of     *)
(* column names, rows the sequence of rows, each row a function from the   *)
(* column names to cell values.  Columns are object-dtype: a cell keeps    *)
(* the Python object it was built from.  A cell is a record [t, s, n]:     *)
(*   t = "null"   None                                                     *)
(*   t = "str"    a Python str, s its characters                           *)
(*   t = "int"    a Python int n                                           *)
(*   t = "float"  a Python float of integral value n (12.0)                *)
(***************************************************************************)
EXTENDS Integers, Sequences, FiniteSets, TLC

(***************************************************************************)
(* Bounds of the model.                                                    *)
(***************************************************************************)
MaxRows == 2
MaxRules == 2

(***************************************************************************)
(* Cell values.                                                            *)
(***************************************************************************)
None == [t |-> "null", s |-> <<>>, n |-> 0]
Str(chars) == [t |-> "str", s |-> chars, n |-> 0]
Int_(k) == [t |-> "int", s |-> <<>>, n |-> k]
Float_(k) == [t |-> "float", s |-> <<>>, n |-> k]

Range(f) == {f[i] : i \in DOMAIN f}

DigitChars == <<"0", "1", "2", "3", "4", "5", "6", "7", "8", "9">>

RECURSIVE Digits(_)
Digits(k) ==
    IF k < 10 THEN <<DigitChars[k + 1]>>
    ELSE Digits(k \div 10) \o <<DigitChars[(k % 10) + 1]>>

\* str(v), as Series.astype(str) applies it to each cell of an object column.
astype_str(v) ==
    CASE v.t = "null" -> <<"N", "o", "n", "e">>
      [] v.t = "str" -> v.s
      [] v.t = "int" -> Digits(v.n)
      [] v.t = "float" -> Digits(v.n) \o <<".", "0">>

RECURSIVE lstrip(_)
lstrip(s) == IF s # <<>> /\ Head(s) = " " THEN lstrip(Tail(s)) ELSE s

RECURSIVE rstrip(_)
rstrip(s) ==
    IF s # <<>> /\ s[Len(s)] = " " THEN rstrip(SubSeq(s, 1, Len(s) - 1)) ELSE s

\* Series.str.strip()
str_strip(s) == rstrip(lstrip(s))

\* Series.str.len()
str_len(s) == Len(s)

\* Series.notnull()
notnull(v) == v.t # "null"

\* pd.to_numeric(..., errors='coerce').notnull(): numbers convert, None
\* becomes NaN, a str converts when, stripped of surrounding blanks, it is a
\* non-empty run of decimal digits (the only numerals of the model's alphabet).
to_numeric_notnull(v) ==
    CASE v.t = "null" -> FALSE
      [] v.t \in {"int", "float"} -> TRUE
      [] v.t = "str" ->
            LET tx == str_strip(v.s)
            IN  tx # <<>> /\ \A i \in 1..Len(tx) : tx[i] \in Range(DigitChars)

\* Equality of two cells as DataFrame.drop_duplicates hashes and compares
\* them in an object column: None equals None, strs by their characters, and
\* an int equals a float of the same value (12 == 12.0).
py_eq(a, b) ==
    \/ a.t = "null" /\ b.t = "null"
    \/ a.t = "str" /\ b.t = "str" /\ a.s = b.s
    \/ a.t \in {"int", "float"} /\ b.t \in {"int", "float"} /\ a.n = b.n

(***************************************************************************)
(* DataFrames.                                                             *)
(***************************************************************************)
\* pd.DataFrame()
EmptyDataFrame == [columns |-> <<>>, rows |-> <<>>]

\* DataFrame.empty
empty(df) == Len(df.columns) = 0 \/ Len(df.rows) = 0

RECURSIVE SelectRows(_, _)
\* df[mask]: the rows whose position is in keep, in their order.
SelectRows(rows, keep) ==
    IF rows = <<>> THEN <<>>
    ELSE LET k == Len(rows)
             front == SelectRows(SubSeq(rows, 1, k - 1), keep)
         IN  IF k \in keep THEN Append(front, rows[k]) ELSE front

Filter(df, keep) == [df EXCEPT !.rows = SelectRows(df.rows, keep)]

(***************************************************************************)
(* The five cleaning operations, each on one column of the current frame.  *)
(* Each returns a new frame and leaves the one it was given alone.         *)
(***************************************************************************)
Rows(df) == 1..Len(df.rows)

\* Mutant: keep='last'.
drop_duplicates_last(df, column) ==
    Filter(df, {i \in Rows(df) :
        \A j \in (i + 1)..Len(df.rows) :
            ~py_eq(df.rows[j][column], df.rows[i][column])})

\* df.drop_duplicates(subset=[column], keep='first')
drop_duplicates(df, column) ==
    Filter(df, {i \in Rows(df) :
        \A j \in 1..(i - 1) : ~py_eq(df.rows[j][column], df.rows[i][column])})

\* df[df[column].notnull()]
remove_nulls(df, column) ==
    Filter(df, {i \in Rows(df) : notnull(df.rows[i][column])})

\* df[df[column].astype(str).str.strip() != '']
validate_string(df, column) ==
    Filter(df, {i \in Rows(df) :
        str_strip(astype_str(df.rows[i][column])) # <<>>})

\* Mutant: the threshold compared with > instead of >=.
validate_length_gt(df, column) ==
    Filter(df, {i \in Rows(df) : str_len(astype_str(df.rows[i][column])) > 3})

\* df[df[column].astype(str).str.len() >= 3]
validate_length(df, column) ==
    Filter(df, {i \in Rows(df) : str_len(astype_str(df.rows[i][column])) >= 3})

\* df[pd.to_numeric(df[column], errors='coerce').notnull()]
validate_numeric(df, column) ==
    Filter(df, {i \in Rows(df) : to_numeric_notnull(df.rows[i][column])})

\* The operations in the order of clean_data's if statements.
RuleOrder ==
    <<"drop_duplicates", "remove_nulls", "validate_string",
      "validate_length", "validate_numeric">>

Rules == Range(RuleOrder)

ApplyRule(rule, df, column) ==
    CASE rule = "drop_duplicates" -> drop_duplicates(df, column)
      [] rule = "remove_nulls" -> remove_nulls(df, column)
      [] rule = "validate_string" -> validate_string(df, column)
      [] rule = "validate_length" -> validate_length(df, column)
      [] rule = "validate_numeric" -> validate_numeric(df, column)

(***************************************************************************)
(* clean_data.  The try block is run on a record                           *)
(*   [df, fresh, err]                                                      *)
(* df is the frame the local name df is bound to, fresh says that df has   *)
(* been rebound to a frame an operation returned (it is no longer the      *)
(* caller's object), err that an exception has been raised.                *)
(***************************************************************************)
\* Mutant: an operation on a column the frame does not have is skipped.
try_rule_skip(st, rule, column) ==
    IF st.err \/ column \notin Range(st.df.columns) THEN st
    ELSE [df |-> ApplyRule(rule, st.df, column), fresh |-> TRUE, err |-> FALSE]

\* One `if rule in options:` body: df[column] or subset=[column] raises
\* KeyError when the frame has no such column.
try_rule(st, rule, column) ==
    IF st.err THEN st
    ELSE IF column \notin Range(st.df.columns) THEN [st EXCEPT !.err = TRUE]
    ELSE [df |-> ApplyRule(rule, st.df, column), fresh |-> TRUE, err |-> FALSE]

RECURSIVE apply_listed(_, _, _)
\* Mutant: the operations applied in the order the options list gives them.
apply_listed(st, column, options) ==
    IF options = <<>> THEN st
    ELSE apply_listed(try_rule(st, Head(options), column), column, Tail(options))

RECURSIVE apply_from(_, _, _, _)
apply_from(st, column, options, k) ==
    IF k > Len(RuleOrder) THEN st
    ELSE apply_from(
            IF RuleOrder[k] \in Range(options)
            THEN try_rule(st, RuleOrder[k], column) ELSE st,
            column, options, k + 1)

\* The body of the for loop: the five membership tests, in their fixed order.
apply_options(st, column, options) == apply_from(st, column, options, 1)

RECURSIVE Reverse(_)
Reverse(s) == IF s = <<>> THEN <<>> ELSE Append(Reverse(Tail(s)), Head(s))

\* Mutant: the entries visited last to first.
items_reversed(cleaning_options) == Reverse(cleaning_options)

\* cleaning_options.items(): the entries in the mapping's insertion order.
items(cleaning_options) == cleaning_options

RECURSIVE for_each(_, _)
for_each(st, entries) ==
    IF entries = <<>> THEN st
    ELSE for_each(
            apply_options(st, Head(entries).column, Head(entries).options),
            Tail(entries))

\* Mutant: range(0, len(df)).
assign_id_zero(df) ==
    LET cols == IF "id" \in Range(df.columns) THEN df.columns
                ELSE Append(df.columns, "id")
    IN  [columns |-> cols,
         rows |-> [i \in Rows(df) |->
                     [c \in Range(cols) |->
                        IF c = "id" THEN Int_(i - 1) ELSE df.rows[i][c]]]]

\* df['id'] = range(1, len(df) + 1): an existing id column is overwritten in
\* place, a new one is appended as the last column.
assign_id(df) ==
    LET cols == IF "id" \in Range(df.columns) THEN df.columns
                ELSE Append(df.columns, "id")
    IN  [columns |-> cols,
         rows |-> [i \in Rows(df) |->
                     [c \in Range(cols) |->
                        IF c = "id" THEN Int_(i) ELSE df.rows[i][c]]]]

\* Mutant: the handler hands back the frame as far as it got.
except_partial(df) == df

\* except Exception: return pd.DataFrame()
except_return(df) == EmptyDataFrame

\* Where a call of the display library inside the try block raises:
\* "none", "pre" (lines 58-76, before the id assignment) or "post" (lines
\* 79-80, after it).
RaisePoints == {"none", "pre", "post"}

\* clean_data(df, cleaning_options).  ret is the value returned, arg the
\* caller's frame object after the call, failed whether the handler ran.
clean_data(df, cleaning_options, raise) ==
    LET st0 == [df |-> df, fresh |-> FALSE, err |-> raise = "pre"]
        st == for_each(st0, items(cleaning_options))
        out == assign_id(st.df)
    IN  IF st.err
        THEN [ret |-> except_return(st.df), arg |-> df, failed |-> TRUE]
        ELSE [ret |-> IF raise = "post" THEN except_return(out) ELSE out,
              arg |-> IF st.fresh THEN df ELSE out,
              failed |-> raise = "post"]

(***************************************************************************)
(* State.  raw_data and cleaned_data are st.session_state's two frames.    *)
(* cleaning_options is the mapping handed to clean_data, as the sequence   *)
(* of its entries [column, options] in insertion order.  The other         *)
(* variables record the calls for the properties:                          *)
(*   step      what the latest step was: "start", "extract", "clean" or    *)
(*             "load"                                                      *)
(*   arg       the frame the latest step handed to clean_data or to        *)
(*             load_cleaned_data, as it was when the call was made         *)
(*   held      cleaned_data as it was when the latest step began           *)
(*   returned  what the latest call of clean_data returned                 *)
(*   failed    whether the except handler ran in that call                 *)
(***************************************************************************)
VARIABLES raw_data, cleaned_data, cleaning_options, step, arg, held, returned,
          failed

vars ==
    <<raw_data, cleaned_data, cleaning_options, step, arg, held, returned, failed>>

NoFrame == [columns |-> <<"-">>, rows |-> <<>>]

(***************************************************************************)
(* Inputs.                                                                 *)
(***************************************************************************)
abc == Str(<<"a", "b", "c">>)
blank == Str(<<" ", " ">>)

NameVals == {None, abc}
AgeVals == {Int_(12), Float_(12)}

ColVals(c) == IF c = "name" THEN NameVals ELSE AgeVals

RowsOf(cols) ==
    {r \in [Range(cols) -> NameVals \cup AgeVals] :
        \A c \in Range(cols) : r[c] \in ColVals(c)}

SeqsUpTo(S, k) == UNION {[1..m -> S] : m \in 0..k}

\* The frames with columns name and age of up to MaxRows rows.
Datasets ==
    {[columns |-> <<"name", "age">>, rows |-> rs] :
        rs \in SeqsUpTo(RowsOf(<<"name", "age">>), MaxRows)}

\* A frame that has an id column already.
IdData ==
    [columns |-> <<"id", "name">>,
     rows |-> << [id |-> Int_(12), name |-> abc],
                 [id |-> Float_(12), name |-> None],
                 [id |-> Int_(12), name |-> blank] >>]

\* The frame and the rule set of the worked scenario.
ScenarioData ==
    [columns |-> <<"name", "age">>,
     rows |-> << [name |-> Str(<<"a", "l", "i", "c", "e">>), age |-> Str(<<"3", "0">>)],
                 [name |-> Str(<<"a", "l", "i", "c", "e">>), age |-> Str(<<"3", "1">>)],
                 [name |-> None, age |-> Str(<<"2", "5">>)],
                 [name |-> Str(<<"b", "o">>), age |-> Str(<<"x">>)] >>]

ScenarioRules ==
    << [column |-> "name", options |-> <<"drop_duplicates", "remove_nulls">>],
       [column |-> "age", options |-> <<"validate_numeric">>] >>

Injective(q) == \A i, j \in DOMAIN q : i # j => q[i] # q[j]

\* A multiselect's value: distinct operations in the order they were chosen.
OptionLists == {q \in SeqsUpTo(Rules, MaxRules) : Injective(q)}

RuleColumns == {"name", "age", "id"}

Entries == {[column |-> c, options |-> o] : c \in RuleColumns, o \in OptionLists}

RECURSIVE TotalRules(_)
TotalRules(R) ==
    IF R = <<>> THEN 0 ELSE Len(Head(R).options) + TotalRules(Tail(R))

\* Rule sets: a dict has one entry per key, and the entries list MaxRules
\* operations in all.
RuleSets ==
    {R \in SeqsUpTo(Entries, Len(IdData.columns)) :
        /\ \A i, j \in DOMAIN R : i # j => R[i].column # R[j].column
        /\ TotalRules(R) <= MaxRules}

\* Those for a frame: no more entries than the frame has columns.
RuleSetsFor(df) == {R \in RuleSets : Len(R) <= Len(df.columns)}

(***************************************************************************)
(* Spec: one call clean_data(raw_data, cleaning_options) by a caller that  *)
(* holds raw_data and binds the result to cleaned_data.  The display calls *)
(* inside clean_data succeed.                                              *)
(***************************************************************************)
Init ==
    /\ raw_data \in Datasets \cup {IdData, ScenarioData}
    /\ cleaning_options \in RuleSetsFor(raw_data) \cup {ScenarioRules}
    /\ cleaned_data = EmptyDataFrame
    /\ step = "start"
    /\ arg = NoFrame
    /\ held = EmptyDataFrame
    /\ returned = NoFrame
    /\ failed = FALSE

Call ==
    /\ step = "start"
    /\ LET r == clean_data(raw_data, cleaning_options, "none")
       IN  /\ cleaned_data' = r.ret
           /\ raw_data' = r.arg
           /\ returned' = r.ret
           /\ failed' = r.failed
    /\ arg' = raw_data
    /\ held' = cleaned_data
    /\ step' = "clean"
    /\ UNCHANGED cleaning_options

Next == Call

Spec == Init /\ [][Next]_vars

(***************************************************************************)
(* SpecApp: the interactive pipeline.  Each step is one run of the script  *)
(* with one button pressed.  The mapping is a local of the script run: the *)
(* Clean Data step builds it from the frame's columns and the multiselects *)
(* and hands it to clean_data, and cleaning_options stays empty.           *)
(***************************************************************************)
\* The tables of the data source.
PeopleData ==
    [columns |-> <<"name", "age">>,
     rows |-> << [name |-> abc, age |-> Int_(12)],
                 [name |-> abc, age |-> Float_(12)] >>]

SourceTables == {IdData, PeopleData}

\* extract_data: the table read, or pd.DataFrame() when reading raises.
extract_data(table, ok) == IF ok THEN table ELSE EmptyDataFrame

RECURSIVE Selections(_, _)
\* The values of n multiselects that select up to budget operations in all.
Selections(n, budget) ==
    IF n = 0 THEN {<<>>}
    ELSE UNION {{<<o>> \o rest : rest \in Selections(n - 1, budget - Len(o))} :
                  o \in {q \in OptionLists : Len(q) <= budget}}

\* Lines 127-134: one entry per column of raw_data, in column order.
BuildOptions(df, sel) ==
    [k \in DOMAIN df.columns |-> [column |-> df.columns[k], options |-> sel[k]]]

InitApp ==
    /\ raw_data = EmptyDataFrame
    /\ cleaned_data = EmptyDataFrame
    /\ cleaning_options = <<>>
    /\ step = "start"
    /\ arg = NoFrame
    /\ held = EmptyDataFrame
    /\ returned = NoFrame
    /\ failed = FALSE

\* Step 2, the Extract Data button.
ExtractData ==
    /\ \E table \in SourceTables, ok \in BOOLEAN :
          raw_data' = extract_data(table, ok)
    /\ step' = "extract"
    /\ arg' = NoFrame
    /\ held' = cleaned_data
    /\ UNCHANGED <<cleaned_data, cleaning_options, returned, failed>>

\* Step 3, the Clean Data button, shown when raw_data is not empty.
CleanData ==
    /\ ~empty(raw_data)
    /\ \E sel \in Selections(Len(raw_data.columns), MaxRules),
          raise \in RaisePoints :
          LET r == clean_data(raw_data, BuildOptions(raw_data, sel), raise)
          IN  /\ cleaned_data' = r.ret
              /\ raw_data' = r.arg
              /\ returned' = r.ret
              /\ failed' = r.failed
    /\ step' = "clean"
    /\ arg' = raw_data
    /\ held' = cleaned_data
    /\ UNCHANGED cleaning_options

\* Mutant: the button is shown whatever cleaned_data holds.
LoadCleanedData_unguarded ==
    /\ step' = "load"
    /\ arg' = cleaned_data
    /\ held' = cleaned_data
    /\ UNCHANGED <<raw_data, cleaned_data, cleaning_options, returned, failed>>

\* Step 4, the Load Cleaned Data button, shown when cleaned_data is not
\* empty: load_cleaned_data(cleaned_data, selected_db).
LoadCleanedData ==
    /\ ~empty(cleaned_data)
    /\ step' = "load"
    /\ arg' = cleaned_data
    /\ held' = cleaned_data
    /\ UNCHANGED <<raw_data, cleaned_data, cleaning_options, returned, failed>>

NextApp == ExtractData \/ CleanData \/ LoadCleanedData

SpecApp == InitApp /\ [][NextApp]_vars

(***************************************************************************)
(* Properties of one call (Spec).                                          *)
(***************************************************************************)
Done == step = "clean"

HasColumn(df, c) == c \in Range(df.columns)

\* The rule set names only columns of the frame.
KnownOnly(R, df) == \A k \in DOMAIN R : HasColumn(df, R[k].column)

\* Some entry names a column the frame lacks and lists an operation.
RuleOnMissingColumn(R, df) ==
    \E k \in DOMAIN R : ~HasColumn(df, R[k].column) /\ R[k].options # <<>>

RECURSIVE WithoutMissing(_, _)
\* The rule set with the entries for columns the frame lacks removed.
WithoutMissing(R, df) ==
    IF R = <<>> THEN <<>>
    ELSE IF HasColumn(df, Head(R).column)
         THEN <<Head(R)>> \o WithoutMissing(Tail(R), df)
         ELSE WithoutMissing(Tail(R), df)

\* What an operation promises of every row it leaves in a column.
Passes(rule, v) ==
    CASE rule = "drop_duplicates" -> TRUE
      [] rule = "remove_nulls" -> v.t # "null"
      [] rule = "validate_string" -> str_strip(astype_str(v)) # <<>>
      [] rule = "validate_length" -> Len(astype_str(v)) >= 3
      [] rule = "validate_numeric" -> to_numeric_notnull(v)

\* The rows one column's operations keep, stated on the rows as they were
\* when the column was reached: the first row of each value, if duplicates
\* are dropped, and of those the rows that pass every listed filter.
KeptBy(df, column, options) ==
    {i \in Rows(df) :
        /\ "drop_duplicates" \in Range(options) =>
              \A j \in 1..(i - 1) : ~py_eq(df.rows[j][column], df.rows[i][column])
        /\ \A rule \in Range(options) : Passes(rule, df.rows[i][column])}

RECURSIVE ReferenceEntries(_, _)
\* Reference engine: the entries in mapping order, each column's operations
\* in the fixed order, on the rows the earlier entries left.
ReferenceEntries(df, R) ==
    IF R = <<>> THEN df
    ELSE ReferenceEntries(
            Filter(df, KeptBy(df, Head(R).column, Head(R).options)), Tail(R))

RECURSIVE ListedOrder(_, _, _)
ListedOrder(df, column, options) ==
    IF options = <<>> THEN df
    ELSE ListedOrder(ApplyRule(Head(options), df, column), column, Tail(options))

RECURSIVE ReferenceListed(_, _)
\* Reference engine: the entries in mapping order, each column's operations
\* one after another in the order its list gives them.
ReferenceListed(df, R) ==
    IF R = <<>> THEN df
    ELSE ReferenceListed(
            ListedOrder(df, Head(R).column, Head(R).options), Tail(R))

OptionsOf(R, c) ==
    IF \E k \in DOMAIN R : R[k].column = c
    THEN R[CHOOSE k \in DOMAIN R : R[k].column = c].options
    ELSE <<>>

RECURSIVE ReferenceColumns(_, _, _)
\* Reference engine: the frame's columns in column order, each with the
\* operations the rule set gives it.
ReferenceColumns(df, R, cols) ==
    IF cols = <<>> THEN df
    ELSE ReferenceColumns(
            Filter(df, KeptBy(df, Head(cols), OptionsOf(R, Head(cols)))),
            R, Tail(cols))

\* The position of a column in the frame's column list.
ColumnIndex(df, c) == CHOOSE k \in DOMAIN df.columns : df.columns[k] = c

\* The entries come in the order of the frame's columns.
InColumnOrder(R, df) ==
    /\ KnownOnly(R, df)
    /\ \A i, j \in DOMAIN R :
          i < j => ColumnIndex(df, R[i].column) < ColumnIndex(df, R[j].column)

\* C1: for a rule set that names only columns of the frame, clean_data
\* returns, without failing, a frame of no more rows than it was given whose
\* id column holds 1, 2, ..., n in row order, whatever id column the input had.
C1_IdSequence ==
    (Done /\ KnownOnly(cleaning_options, arg)) =>
        /\ ~failed
        /\ Len(returned.rows) <= Len(arg.rows)
        /\ HasColumn(returned, "id")
        /\ \A i \in Rows(returned) : returned.rows[i]["id"] = Int_(i)

\* C1 witness: a frame that came with an id column of other values loses a
\* row and has the id column renumbered.
C1_Witness ==
    /\ Done
    /\ arg = IdData
    /\ KnownOnly(cleaning_options, arg)
    /\ Len(returned.rows) = 2
    /\ returned.rows[2]["id"] = Int_(2)

\* C2 as claimed: the result is that of applying each column's operations in
\* the order its list gives them.
C2_ListedOrder ==
    (Done /\ KnownOnly(cleaning_options, arg)) =>
        returned = assign_id(ReferenceListed(arg, cleaning_options))

\* C2 amended: within one column the operations are applied in the fixed
\* order drop_duplicates, remove_nulls, validate_string, validate_length,
\* validate_numeric, whatever the order of the column's list: duplicates are
\* judged on the rows as the column found them, before any of its filters.
C2_FixedOrder ==
    (Done /\ KnownOnly(cleaning_options, arg)) =>
        returned = assign_id(ReferenceEntries(arg, cleaning_options))

\* C2 witness: validate_length listed before drop_duplicates on a column
\* holding 12 and 12.0; the duplicate 12.0 is dropped first and 12 fails the
\* length test, so no row is left.
C2_Witness ==
    /\ Done
    /\ cleaning_options =
          << [column |-> "age", options |-> <<"validate_length", "drop_duplicates">>] >>
    /\ Len(arg.rows) = 2
    /\ arg.rows[1]["age"] = Int_(12)
    /\ arg.rows[2]["age"] = Float_(12)
    /\ returned.rows = <<>>

C4_InputUnmodified == Done => raw_data = arg

\* C5: a call either fails and returns the empty frame, or returns a frame
\* with the id column 1..n on which every listed operation of every entry
\* holds; it never returns a frame some operations were not applied to.
C5_NoPartialCommit ==
    Done =>
        \/ failed /\ returned = EmptyDataFrame
        \/ /\ ~failed
           /\ HasColumn(returned, "id")
           /\ \A i \in Rows(returned) : returned.rows[i]["id"] = Int_(i)
           /\ \A k \in DOMAIN cleaning_options :
                LET c == cleaning_options[k].column
                    o == cleaning_options[k].options
                IN  o # <<>> /\ c # "id" =>
                      /\ HasColumn(returned, c)
                      /\ \A i \in Rows(returned) :
                            \A rule \in Range(o) : Passes(rule, returned.rows[i][c])
                      /\ "drop_duplicates" \in Range(o) =>
                            \A i, j \in Rows(returned) :
                               i # j => ~py_eq(returned.rows[i][c], returned.rows[j][c])

\* C5 witness: the first entry has removed rows when the second entry, on a
\* column the frame lacks, raises; the empty frame is returned.
C5_Witness ==
    /\ Done
    /\ failed
    /\ Len(cleaning_options) = 2
    /\ HasColumn(arg, cleaning_options[1].column)
    /\ KeptBy(arg, cleaning_options[1].column, cleaning_options[1].options)
          # Rows(arg)
    /\ ~HasColumn(arg, cleaning_options[2].column)
    /\ returned = EmptyDataFrame

\* C7 as claimed: the result is that of walking the frame's columns in
\* column order, whatever the order of the mapping's entries.
C7_DatasetOrder ==
    (Done /\ KnownOnly(cleaning_options, arg)) =>
        returned = assign_id(ReferenceColumns(arg, cleaning_options, arg.columns))

\* C7 amended: the entries are processed in the mapping's order; for a
\* mapping whose entries come in the frame's column order, as the Clean Data
\* step builds it, the result is that of walking the frame's columns in order,
\* each column on the rows the earlier columns left.
C7_MappingOrder ==
    (Done /\ InColumnOrder(cleaning_options, arg)) =>
        returned = assign_id(ReferenceColumns(arg, cleaning_options, arg.columns))

\* C7 witness: name is deduplicated before age is length-checked; the second
\* row, which alone would pass the length check, has gone as a duplicate.
C7_Witness ==
    /\ Done
    /\ cleaning_options =
          << [column |-> "name", options |-> <<"drop_duplicates">>],
             [column |-> "age", options |-> <<"validate_length">>] >>
    /\ Len(arg.rows) = 2
    /\ py_eq(arg.rows[1]["name"], arg.rows[2]["name"])
    /\ arg.rows[1]["age"] = Int_(12)
    /\ arg.rows[2]["age"] = Float_(12)
    /\ returned.rows = <<>>

\* The first position at which the column holds the value of row i.
FirstOf(df, column, i) ==
    CHOOSE j \in Rows(df) :
        /\ py_eq(df.rows[j][column], df.rows[i][column])
        /\ \A m \in 1..(j - 1) : ~py_eq(df.rows[m][column], df.rows[i][column])

alice == Str(<<"a", "l", "i", "c", "e">>)

\* C8: drop_duplicates alone on a column returns, in their order, exactly
\* the rows that are the first of their value (None equal to None);
\* dropping duplicates of the result again changes nothing; and the worked
\* scenario leaves the one row (alice, 30) with id 1.
C8_DropDuplicates ==
    Done =>
        /\ \A c \in Range(arg.columns) :
              /\ cleaning_options = << [column |-> c, options |-> <<"drop_duplicates">>] >>
                    => returned =
                          assign_id(Filter(arg, {FirstOf(arg, c, i) : i \in Rows(arg)}))
              /\ drop_duplicates(drop_duplicates(arg, c), c) = drop_duplicates(arg, c)
        /\ (arg = ScenarioData /\ cleaning_options = ScenarioRules) =>
              returned =
                 [columns |-> <<"name", "age", "id">>,
                  rows |-> << [name |-> alice, age |-> Str(<<"3", "0">>),
                               id |-> Int_(1)] >>]

\* C8 witness: the scenario has run and one row is left.
C8_Witness ==
    /\ Done
    /\ arg = ScenarioData
    /\ cleaning_options = ScenarioRules
    /\ Len(returned.rows) = 1

\* C9: validate_length alone on a column returns exactly the rows whose
\* value, as text, has at least 3 characters; listed with other operations
\* it leaves no shorter value; 12 is the text "12" of length 2.
C9_ValidateLength ==
    /\ astype_str(Int_(12)) = <<"1", "2">>
    /\ astype_str(Float_(12)) = <<"1", "2", ".", "0">>
    /\ Done /\ ~failed =>
          \A k \in DOMAIN cleaning_options :
             LET c == cleaning_options[k].column
             IN  "validate_length" \in Range(cleaning_options[k].options) =>
                   /\ c # "id" =>
                         \A i \in Rows(returned) :
                            Len(astype_str(returned.rows[i][c])) >= 3
                   /\ cleaning_options = << [column |-> c, options |-> <<"validate_length">>] >>
                         => returned =
                               assign_id(Filter(arg, {i \in Rows(arg) :
                                   Len(astype_str(arg.rows[i][c])) >= 3}))

\* C9 witness: of abc (length 3), None and two blanks (length 2) the first
\* two are kept.
C9_Witness ==
    /\ Done
    /\ arg = IdData
    /\ cleaning_options = << [column |-> "name", options |-> <<"validate_length">>] >>
    /\ Len(returned.rows) = 2
    /\ returned.rows[1]["name"] = abc

(***************************************************************************)
(* Properties of the pipeline (SpecApp).                                   *)
(***************************************************************************)
\* The second frame is the first with an id column 1..n set on it.
IdAssigned(a, b) ==
    /\ HasColumn(b, "id")
    /\ Range(b.columns) \ {"id"} = Range(a.columns) \ {"id"}
    /\ Len(b.rows) = Len(a.rows)
    /\ \A i \in Rows(a) :
          /\ b.rows[i]["id"] = Int_(i)
          /\ \A c \in Range(a.columns) \ {"id"} : b.rows[i][c] = a.rows[i][c]

\* C6 as claimed: a Clean Data step that fails leaves raw_data and
\* cleaned_data as they were.
C6_FailureKeepsState ==
    (step = "clean" /\ failed) => (raw_data = arg /\ cleaned_data = held)

\* C6 amended: a Clean Data step that fails replaces cleaned_data by the
\* empty frame, whatever an earlier clean had left there; raw_data keeps its
\* rows and values, and is changed at all only in that its id column has been
\* set when the failure came after the id assignment.
C6_FailureEmptiesCleaned ==
    (step = "clean" /\ failed) =>
        /\ cleaned_data = EmptyDataFrame
        /\ raw_data = arg \/ IdAssigned(arg, raw_data)

\* C6 witness: a failed Clean Data step has emptied a cleaned_data that held
\* the rows of an earlier clean, and raw_data is as it was.
C6_Witness ==
    /\ step = "clean"
    /\ failed
    /\ ~empty(held)
    /\ cleaned_data = EmptyDataFrame
    /\ raw_data = arg

\* C10: load_cleaned_data is called only with the non-empty frame the latest
\* clean_data call returned, so never after a failed clean until a later one
\* returns a row; clean_data is called only on a non-empty raw_data.
C10_StepGuards ==
    /\ step = "load" =>
          /\ arg = returned
          /\ ~failed
          /\ Len(arg.rows) >= 1
          /\ Len(arg.columns) >= 1
    /\ step = "clean" => (Len(arg.rows) >= 1 /\ Len(arg.columns) >= 1)

\* C10 witness: a load of a frame with rows that clean_data returned.
C10_Witness ==
    /\ step = "load"
    /\ arg = returned
    /\ Len(arg.rows) >= 1
    /\ HasColumn(arg, "id")

====
